---- MODULE Spec2Model ----
(***************************************************************************)
(* The x402 payment view.                                                  *)
(*                                                                         *)
(* Explicit flow (Spec): NETWORK_MAP, ensureNetwork, createPaymentToken,   *)
(* executePayment, findBestPaymentOption, handlePayment, handleSuccess,    *)
(* and the session handlers that share the refs user / loading / error     *)
(* with it.                                                                *)
(* Interceptor-based view (SpecInterceptor): setupWallet, checkSession,    *)
(* connectAndLogin and a handlePayment that leaves the payment to the      *)
(* interceptor installed on the API client.                                *)
(* Plan-selecting view (SpecPlans): the interceptor-based view with a plan *)
(* and an amount to choose.  Login-only view: HomeView.vue.                *)
(* SpecViews mounts the explicit, the interceptor-based or the login-only  *)
(* view; SpecToken is createPaymentToken alone; SpecLive is Spec with      *)
(* every pending await settling eventually.                                *)
(*                                                                         *)
(* Every async handler is cut at its awaits: one action per segment that   *)
(* runs between two awaits, so that handlers interleave exactly where the  *)
(* event loop lets them.                                                   *)
(***************************************************************************)
EXTENDS Integers, Sequences, FiniteSets, TLC

\* ------------------------------------------------------------------ bounds
MaxRuns == 2
MaxAccepts == 2
MaxAmount == 2
MaxBalance == 2
MaxLogouts == 1
MaxHashDigits == 3

Runs == 1..MaxRuns

\* ------------------------------------------------------------- text values
\* A string with its interpolated values: text is the template, nums and strs
\* are what the template literal interpolates.  The empty string is Msg("").
MsgOf(text, nums, strs) == [text |-> text, nums |-> nums, strs |-> strs]
Msg(text) == MsgOf(text, <<>>, <<>>)
EmptyMsg == Msg("")
\* JavaScript truthiness of a string: only '' (and undefined) is falsy.
Truthy(m) == m # EmptyMsg
\* a || b on strings
OrElse(a, b) == IF Truthy(a) THEN a ELSE b

\* An Error object as the catch blocks read it: code, error.code, cause.code,
\* message.
ErrCausedBy(code, inner, cause, message) ==
    [code |-> code, inner |-> inner, cause |-> cause, message |-> message]
Err(code, inner, message) == ErrCausedBy(code, inner, "", message)
NoErr == Err("", "", EmptyMsg)

\* ---------------------------------------------------------------- registry
\* chainIdHex is kept as its hex digits after the 0x prefix; HexValue is the
\* number the wallet reads from it.
RECURSIVE HexValue(_)
HexValue(ds) == IF ds = <<>> THEN 0
                ELSE 16 * HexValue(SubSeq(ds, 1, Len(ds) - 1)) + ds[Len(ds)]

\* A JavaScript value that is a number or undefined.
Num(n) == [def |-> TRUE, n |-> n]
Undef == [def |-> FALSE, n |-> 0]

ChainConfig(hex, dec, name) ==
    [kind |-> "ChainConfig", chainIdHex |-> hex, chainIdDec |-> Num(dec), chainName |-> name]

\* A registry whose sepolia entry has a decimal id that is not its hex id.
NETWORK_MAP_DecMistyped ==
    [n \in {"base-sepolia", "sepolia"} |->
        IF n = "base-sepolia"
        THEN ChainConfig(<<1, 4, 10, 3, 4>>, 84532, "Base Sepolia")
        ELSE ChainConfig(<<10, 10, 3, 6, 10, 7>>, 1115511, "Sepolia")]

NETWORK_MAP ==
    [n \in {"base-sepolia", "sepolia"} |->
        IF n = "base-sepolia"
        THEN ChainConfig(<<1, 4, 10, 3, 4>>, 84532, "Base Sepolia")
        ELSE ChainConfig(<<10, 10, 3, 6, 10, 7>>, 11155111, "Sepolia")]

\* NETWORK_MAP is an object literal: a property read that misses its own keys
\* goes on to Object.prototype, whose members are truthy values with none of
\* ChainConfig's fields.
ObjectPrototypeKeys == {"constructor", "toString", "__proto__"}
InheritedMember ==
    [kind |-> "inherited", chainIdHex |-> <<>>, chainIdDec |-> Undef, chainName |-> ""]
Undefined ==
    [kind |-> "undefined", chainIdHex |-> <<>>, chainIdDec |-> Undef, chainName |-> ""]

\* NETWORK_MAP[token]
Lookup(token) ==
    IF token \in DOMAIN NETWORK_MAP THEN NETWORK_MAP[token]
    ELSE IF token \in ObjectPrototypeKeys THEN InheritedMember
    ELSE Undefined

\* if (config)
ConfigTruthy(config) == config.kind # "undefined"

\* ----------------------------------------------------------------- options
Networks == {"base-sepolia", "sepolia", "polygon", "constructor"}
Option(network, asset, payTo, amount) ==
    [network |-> network, asset |-> asset, payTo |-> payTo, maxAmountRequired |-> amount]
NoOption == Option("", "", "", 0)
Options == {Option(n, "0xUSDC", "0xMerchant", a) : n \in Networks, a \in 1..MaxAmount}

RECURSIVE SeqsUpTo(_, _)
SeqsUpTo(S, n) ==
    IF n = 0 THEN {<<>>}
    ELSE LET shorter == SeqsUpTo(S, n - 1)
         IN shorter \cup {Append(s, x) : s \in {t \in shorter : Len(t) = n - 1}, x \in S}
AcceptLists == SeqsUpTo(Options, MaxAccepts)

\* accepts.map(o => o.network)
NetworksOf(accepts) == [i \in 1..Len(accepts) |-> accepts[i].network]

\* findBestPaymentOption: the for loop, as the index of the first option whose
\* lookup is truthy (0 when the loop falls through).
RECURSIVE FirstTruthyFrom(_, _)
FirstTruthyFrom(accepts, i) ==
    IF i > Len(accepts) THEN 0
    ELSE IF ConfigTruthy(Lookup(accepts[i].network)) THEN i
    ELSE FirstTruthyFrom(accepts, i + 1)

NoSupportedNetwork(accepts) ==
    Err("", "", MsgOf("No supported payment network found. Server accepts: ${join}",
                      <<>>, NetworksOf(accepts)))

findBestPaymentOption(accepts) ==
    LET i == FirstTruthyFrom(accepts, 1)
    IN IF i = 0
       THEN [ok |-> FALSE, option |-> NoOption, config |-> Undefined,
             err |-> NoSupportedNetwork(accepts)]
       ELSE [ok |-> TRUE, option |-> accepts[i], config |-> Lookup(accepts[i].network),
             err |-> NoErr]

\* ------------------------------------------------------------- proof token
\* Strings that reach the encoder are sequences of character codes.
TxHashes == {<<48, 120, 97, 49>>, <<48, 120, 98, 50, 102>>}

RECURSIVE DecDigits(_)
DecDigits(n) == IF n < 10 THEN <<48 + n>>
                ELSE Append(DecDigits(n \div 10), 48 + (n % 10))

\* JSON.stringify({ hash, chainId }): a property whose value is undefined is
\* left out.  {"hash":"  ","chainId":  }
JsonStringify(payload) ==
    <<123, 34, 104, 97, 115, 104, 34, 58, 34>> \o payload.hash \o <<34>>
    \o (IF payload.hasChainId
        THEN <<44, 34, 99, 104, 97, 105, 110, 73, 100, 34, 58>> \o DecDigits(payload.chainId)
        ELSE <<>>)
    \o <<125>>

\* window.btoa: base64 of the bytes, as indices into the base64 alphabet,
\* 64 standing for the padding character; BtoaFrom encodes the bytes from
\* position i on, three at a time.
RECURSIVE BtoaFrom(_, _)
BtoaFrom(b, i) ==
    IF i > Len(b) THEN <<>>
    ELSE IF i = Len(b)
    THEN <<b[i] \div 4, (b[i] % 4) * 16, 64, 64>>
    ELSE IF i + 1 = Len(b)
    THEN <<b[i] \div 4, (b[i] % 4) * 16 + b[i + 1] \div 16, (b[i + 1] % 16) * 4, 64>>
    ELSE <<b[i] \div 4, (b[i] % 4) * 16 + b[i + 1] \div 16,
           (b[i + 1] % 16) * 4 + b[i + 2] \div 64, b[i + 2] % 64>>
         \o BtoaFrom(b, i + 3)

Btoa(b) == BtoaFrom(b, 1)

\* A token that leaves the chain id out.
createPaymentToken_HashOnly(txHash, chainId) ==
    Btoa(JsonStringify([hash |-> txHash, hasChainId |-> FALSE, chainId |-> 0]))

createPaymentToken(txHash, chainId) ==
    Btoa(JsonStringify([hash |-> txHash, hasChainId |-> chainId.def, chainId |-> chainId.n]))

\* ------------------------------------------------------------------- state
VARIABLES
    user,          \* ref user: NoUser or the address of the session's user
    loading,       \* ref loading
    error,         \* ref error
    hasEthereum,   \* window.ethereum is present
    walletChain,   \* the chain the wallet is on
    run,           \* the activations of handlePayment
    session,       \* checkSession's position
    login,         \* connectAndLogin's position
    logouts,       \* logout requests in flight
    view,          \* which version of the payment view is mounted
    walletClient,          \* let walletClient (interceptor-based view)
    interceptorInstalled,  \* let interceptorInstalled (interceptor-based view)
    interceptors,          \* the payment interceptors installed on api
    selectedPlan,          \* ref selectedPlan (plan-selecting view)
    payAsYouGoAmount       \* ref payAsYouGoAmount (plan-selecting view)

\* the view itself and the refs only the plan-selecting view has
pageVars == <<view, selectedPlan, payAsYouGoAmount>>

\* what only the interceptor-based views have, and the view itself
viewVars == <<pageVars, walletClient, interceptorInstalled, interceptors>>

vars == <<user, loading, error, hasEthereum, walletChain, run, session, login, logouts,
          viewVars>>

NoUser == ""
Users == {"0xAlice"}
Plans == {"basic"}
WalletChains == {1, 84532, 11155111}

\* ------------------------------------------------------------ environment
\* The message of an error made by a library (ethers, axios) or by the
\* wallet is text the code passes on without reading it.
LibraryTexts == {EmptyMsg, Msg("library message A"), Msg("library message B")}

\* What a wallet call can reject with.  The code reads code, error.code and
\* message; everything else about the error is invisible to it.
WalletErrors ==
    {Err("UNKNOWN_ERROR", "", text) : text \in LibraryTexts}
    \cup {Err("ACTION_REJECTED", "", Msg("library message A")),
          Err("4902", "", Msg("library message A")),
          Err("UNKNOWN_ERROR", "4902", Msg("library message B"))}

\* What a request can reject with: the error's message (axios gives every
\* error one), response.status and response.data.error (status 0: no response
\* was received).
AxiosError(status, dataError, text) ==
    [status |-> status, dataError |-> dataError,
     err |-> Err(IF status = 0 THEN "ERR_NETWORK" ELSE "ERR_BAD_REQUEST", "", text)]
OtherStatuses == {0, 401, 500}
ServerErrorTexts == {EmptyMsg, Msg("Unauthorized")}
AxiosErrors(statuses) ==
    {ax \in {AxiosError(status, dataError, text) :
                status \in statuses, dataError \in ServerErrorTexts,
                text \in LibraryTexts \ {EmptyMsg}} :
        ax.status = 0 => ax.dataError = EmptyMsg}
RequestErrors == AxiosErrors(OtherStatuses)

\* ------------------------------------------------------- one activation
\* A call to the wallet: what was asked, whether it has settled, the error it
\* rejected with (NoErr: it resolved, or has not settled) and the number it
\* resolved with, if the code reads one.
Call(op) ==
    [op |-> op, chain |-> <<>>, chainName |-> "", asset |-> "", to |-> "", amount |-> 0,
     settled |-> FALSE, err |-> NoErr, value |-> Undef]
\* the activation's pending call settles with e
Answered(rec, e) ==
    [rec EXCEPT !.calls = [@ EXCEPT ![Len(@)] = [@ EXCEPT !.settled = TRUE, !.err = e]]]
\* the activation's pending call resolves with the number v
AnsweredWith(rec, v) ==
    [rec EXCEPT !.calls = [@ EXCEPT ![Len(@)] = [@ EXCEPT !.settled = TRUE, !.value = Num(v)]]]
SwitchCall(hex) == [Call("wallet_switchEthereumChain") EXCEPT !.chain = hex]
\* [{ chainId: chainIdHex, ...params }]
AddChainCall(config) ==
    [Call("wallet_addEthereumChain") EXCEPT !.chain = config.chainIdHex,
                                            !.chainName = config.chainName]
BalanceOfCall(asset) == [Call("balanceOf") EXCEPT !.asset = asset]
TransferCall(asset, to, amount) ==
    [Call("transfer") EXCEPT !.asset = asset, !.to = to, !.amount = amount]
\* tx.wait(confirms): amount holds the number of confirmations awaited
WaitCall(confirms) == [Call("wait") EXCEPT !.amount = confirms]

NoHeader == <<>>
\* A request of handlePayment: api.get unless said otherwise, its path, the
\* amount in its body (in cents, if it has one) and its X-Payment header.
Request(plan, headers) ==
    [method |-> "GET", plan |-> plan, amount |-> Undef, xPayment |-> headers]

IdleRun ==
    [pc |-> "idle", plan |-> "", accepts |-> <<>>, option |-> NoOption, config |-> Undefined,
     acceptsKind |-> "", negotiating |-> FALSE, calls |-> <<>>, reqs |-> <<>>, firstStatus |-> Undef,
     retryStatus |-> Undef, balance |-> Undef, txHash |-> <<>>, confirmed |-> FALSE, failedAt |-> "", thrown |-> NoErr, outcome |-> "none",
     delivered |-> "none", shown |-> EmptyMsg]

InFlight(r) == run[r].pc \notin {"idle", "done"}

\* --------------------------------------------------------------- template
\* The buttons shown whatever loading is.
LoggedInBoxRendered_IgnoresLoading == user # NoUser

\* v-if="loading" ... v-else-if="user": the Pay and Disconnect buttons
LoggedInBoxRendered == ~loading /\ user # NoUser
\* v-else: the Connect Wallet button
LoginBoxRendered == ~loading /\ user = NoUser

\* ------------------------------------------------------ handlePayment
\* handleSuccess: data.url redirects, anything else alerts
handleSuccess(hasUrl) == IF hasUrl THEN "redirect" ELSE "alert"

\* A catch block that shows its own text for every error.
PayErrText_Generic(payErr) == Msg("Payment execution failed")

\* A catch block without the fallback text.
PayErrText_MessageOnly(payErr) ==
    IF payErr.code = "ACTION_REJECTED" THEN Msg("You rejected the transaction.")
    ELSE payErr.message

\* catch (payErr)
PayErrText(payErr) ==
    IF payErr.code = "ACTION_REJECTED" THEN Msg("You rejected the transaction.")
    ELSE OrElse(payErr.message, Msg("Payment execution failed"))

\* the outer else branch: err.response?.data?.error || err.message || 'Request failed'
RequestErrText(ax) == OrElse(ax.dataError, OrElse(ax.err.message, Msg("Request failed")))

\* The record of an activation that ends in the inner catch at `step`.
PayFailed(rec, step, e) ==
    [rec EXCEPT !.pc = "done", !.outcome = "failed", !.failedAt = step, !.thrown = e,
                !.shown = PayErrText(e)]

\* The activation ends without handleSuccess having been called.
Delivered_Skipped(rec, hasUrl) == [rec EXCEPT !.pc = "done", !.outcome = "success"]

\* The record of an activation that ends by delivering the payload.
Delivered(rec, hasUrl) ==
    [rec EXCEPT !.pc = "done", !.outcome = "success", !.delivered = handleSuccess(hasUrl)]

\* A catch block that is not followed by the reset of loading.
FailPayment_KeepsLoading(r, rec, step, e) ==
    /\ run' = [run EXCEPT ![r] = PayFailed(rec, step, e)]
    /\ error' = PayErrText(e)
    /\ UNCHANGED loading

\* inner catch, then finally
FailPayment(r, rec, step, e) ==
    /\ run' = [run EXCEPT ![r] = PayFailed(rec, step, e)]
    /\ error' = PayErrText(e)
    /\ loading' = FALSE

\* handleSuccess, then finally
Succeed(r, rec, hasUrl) ==
    /\ run' = [run EXCEPT ![r] = Delivered(rec, hasUrl)]
    /\ loading' = FALSE
    /\ UNCHANGED error

\* What is kept of an activation (its calls, requests and result) is kept
\* until the next click; a new activation takes the first free slot.
Forgotten == [q \in Runs |-> IF run[q].pc = "done" THEN IdleRun ELSE run[q]]
FreeSlot(r) ==
    /\ Forgotten[r].pc = "idle"
    /\ \A q \in Runs : q < r => Forgotten[q].pc # "idle"

\* @click="handlePayment('basic')": up to the first await
StartPayment(r, plan) ==
    /\ LoggedInBoxRendered
    /\ FreeSlot(r)
    /\ loading' = TRUE
    /\ error' = EmptyMsg
    /\ run' = [Forgotten EXCEPT ![r] =
                  [IdleRun EXCEPT !.pc = "get1", !.plan = plan,
                                  !.reqs = <<Request(plan, NoHeader)>>]]
    /\ UNCHANGED <<user, hasEthereum, viewVars, walletChain, session, login, logouts>>

\* the first request resolves
FirstRequestSucceeds(r) ==
    /\ run[r].pc = "get1"
    /\ \E hasUrl \in BOOLEAN :
          Succeed(r, [run[r] EXCEPT !.firstStatus = Num(200)], hasUrl)
    /\ UNCHANGED <<user, hasEthereum, viewVars, walletChain, session, login, logouts>>

\* A first request whose every rejection starts the payment flow.
FirstRequestFails_EntersPayment(r) ==
    /\ run[r].pc = "get1"
    /\ \E ax \in RequestErrors :
          /\ run' = [run EXCEPT ![r] =
                        [@ EXCEPT !.pc = "getNetwork", !.firstStatus = Num(ax.status),
                                  !.calls = <<Call("getNetwork")>>]]
          /\ UNCHANGED <<loading, error>>
    /\ UNCHANGED <<user, hasEthereum, viewVars, walletChain, session, login, logouts>>

\* the first request rejects with anything but a 402 response
FirstRequestFails(r) ==
    /\ run[r].pc = "get1"
    /\ \E ax \in RequestErrors :
          /\ run' = [run EXCEPT ![r] =
                        [@ EXCEPT !.pc = "done", !.outcome = "failed",
                                  !.firstStatus = Num(ax.status), !.failedAt = "request",
                                  !.thrown = ax.err, !.shown = RequestErrText(ax)]]
          /\ error' = RequestErrText(ax)
          /\ loading' = FALSE
    /\ UNCHANGED <<user, hasEthereum, viewVars, walletChain, session, login, logouts>>

\* const { accepts } = err.response.data, and the test that follows
AcceptsKinds == {"array", "missing", "notArray", "noData"}
\* A test that lets through whatever is truthy.
ParseAccepts_TruthyOnly(kind) ==
    IF kind = "noData"
    THEN Err("", "", Msg("Cannot destructure property 'accepts' of 'err.response.data'"))
    ELSE IF kind = "missing" THEN Err("", "", Msg("Invalid payment parameters"))
    ELSE NoErr

ParseAccepts(kind) ==
    IF kind = "noData"
    THEN Err("", "", Msg("Cannot destructure property 'accepts' of 'err.response.data'"))
    ELSE IF kind # "array" THEN Err("", "", Msg("Invalid payment parameters"))
    ELSE NoErr

\* the first request rejects with a 402 response: the payment flow up to
\* provider.getNetwork() in ensureNetwork
FirstRequestPaymentRequired(r) ==
    /\ run[r].pc = "get1"
    /\ \E kind \in AcceptsKinds, list \in AcceptLists :
          LET accepts == IF kind = "array" THEN list ELSE <<>>
              rec0 == [run[r] EXCEPT !.firstStatus = Num(402), !.accepts = accepts,
                                     !.acceptsKind = kind,
                                     !.negotiating = kind = "array"]
              found == findBestPaymentOption(accepts)
              rec1 == [rec0 EXCEPT !.option = found.option, !.config = found.config]
          IN /\ kind # "array" => list = <<>>
             /\ IF ParseAccepts(kind) # NoErr
                THEN FailPayment(r, rec0, "parse", ParseAccepts(kind))
                ELSE IF ~found.ok
                THEN FailPayment(r, rec0, "match", found.err)
                ELSE IF ~hasEthereum
                THEN FailPayment(r, rec1, "wallet", Err("", "", Msg("No crypto wallet found")))
                ELSE /\ run' = [run EXCEPT ![r] =
                                   [rec1 EXCEPT !.pc = "getNetwork",
                                                !.calls = <<Call("getNetwork")>>]]
                     /\ UNCHANGED <<loading, error>>
    /\ UNCHANGED <<user, hasEthereum, viewVars, walletChain, session, login, logouts>>

\* ------------------------------------------------------- ensureNetwork
\* A test that never finds the wallet on the chain.
SameChain_Never(chain, config) == FALSE

\* Number(network.chainId) === config.chainIdDec
SameChain(chain, config) == config.chainIdDec.def /\ chain = config.chainIdDec.n

\* Every switch error taken for the unrecognized-chain condition.
IsUnrecognizedChain_Any(switchError) == TRUE

\* switchError.code === 4902 || switchError.error?.code === 4902
IsUnrecognizedChain(switchError) == switchError.code = "4902" \/ switchError.inner = "4902"

\* The chain id read once more before going on.
AfterEnsureNetwork_Rechecks(rec) ==
    [rec EXCEPT !.pc = "getNetwork", !.calls = Append(@, Call("getNetwork"))]

\* ensureNetwork has returned: executePayment goes on to provider.getSigner()
AfterEnsureNetwork(rec) ==
    [rec EXCEPT !.pc = "getSigner", !.calls = Append(@, Call("getSigner"))]

\* accepts is not read again once findBestPaymentOption has returned: the
\* activation's record lets go of it when the first wallet call settles.
Matched(rec) == [rec EXCEPT !.accepts = <<>>, !.negotiating = FALSE]

\* provider.getNetwork() settles
NetworkRead(r) ==
    /\ run[r].pc = "getNetwork"
    /\ \/ \E e \in WalletErrors : FailPayment(r, Answered(Matched(run[r]), e), "switch", e)
       \/ /\ run' = [run EXCEPT ![r] =
                        IF SameChain(walletChain, run[r].config)
                        THEN AfterEnsureNetwork(AnsweredWith(Matched(run[r]), walletChain))
                        ELSE [AnsweredWith(Matched(run[r]), walletChain) EXCEPT
                                 !.pc = "switch",
                                 !.calls = Append(@, SwitchCall(run[r].config.chainIdHex))]]
          /\ UNCHANGED <<loading, error>>
    /\ UNCHANGED <<user, hasEthereum, viewVars, walletChain, session, login, logouts>>

\* The chain the wallet is on once it has accepted a request naming `hex`
\* (a request without a chain id changes nothing).
SwitchedTo(hex) == IF hex = <<>> THEN walletChain ELSE HexValue(hex)

\* wallet_switchEthereumChain settles
SwitchAnswered(r) ==
    /\ run[r].pc = "switch"
    /\ \/ /\ run' = [run EXCEPT ![r] = AfterEnsureNetwork(Answered(run[r], NoErr))]
          /\ walletChain' = SwitchedTo(run[r].config.chainIdHex)
          /\ UNCHANGED <<loading, error>>
       \/ \E e \in WalletErrors :
             /\ IF IsUnrecognizedChain(e)
                THEN /\ run' = [run EXCEPT ![r] =
                                   [Answered(run[r], e) EXCEPT
                                       !.pc = "addChain",
                                       !.calls = Append(@, AddChainCall(run[r].config))]]
                     /\ UNCHANGED <<loading, error>>
                ELSE FailPayment(r, Answered(run[r], e), "switch", e)
             /\ UNCHANGED walletChain
    /\ UNCHANGED <<user, hasEthereum, viewVars, session, login, logouts>>

\* The switch requested again once the chain is registered.
AddChainAnswered_SwitchesAgain(r) ==
    /\ run[r].pc = "addChain"
    /\ \/ /\ run' = [run EXCEPT ![r] =
                        [Answered(run[r], NoErr) EXCEPT
                            !.pc = "switch",
                            !.calls = Append(@, SwitchCall(run[r].config.chainIdHex))]]
          /\ walletChain' \in {walletChain, SwitchedTo(run[r].config.chainIdHex)}
          /\ UNCHANGED <<loading, error>>
       \/ /\ \E e \in WalletErrors : FailPayment(r, Answered(run[r], e), "switch", e)
          /\ UNCHANGED walletChain
    /\ UNCHANGED <<user, hasEthereum, viewVars, session, login, logouts>>

\* wallet_addEthereumChain settles; a wallet that adds a chain may or may
\* not switch to it
AddChainAnswered(r) ==
    /\ run[r].pc = "addChain"
    /\ \/ /\ run' = [run EXCEPT ![r] = AfterEnsureNetwork(Answered(run[r], NoErr))]
          /\ walletChain' \in {walletChain, SwitchedTo(run[r].config.chainIdHex)}
          /\ UNCHANGED <<loading, error>>
       \/ /\ \E e \in WalletErrors : FailPayment(r, Answered(run[r], e), "switch", e)
          /\ UNCHANGED walletChain
    /\ UNCHANGED <<user, hasEthereum, viewVars, session, login, logouts>>

\* ------------------------------------------------------ executePayment
\* The comparison off by one.
InsufficientBalance_OffByOne(balance, requiredAmount) == balance + 1 < requiredAmount

\* A check that also rejects a balance of exactly the required amount.
InsufficientBalance_OrEqual(balance, requiredAmount) == balance <= requiredAmount

\* balance < requiredAmount
InsufficientBalance(balance, requiredAmount) == balance < requiredAmount

InsufficientBalanceError(requiredAmount, balance) ==
    Err("", "",
        MsgOf("Insufficient Token Balance. You need ${requiredAmount} units of the token, but you only have ${balance}.",
              <<requiredAmount, balance>>, <<>>))

\* provider.getSigner() settles; signer.getAddress() answers from the signer;
\* then tokenContract.balanceOf(userAddress) is sent
SignerAnswered(r) ==
    /\ run[r].pc = "getSigner"
    /\ \/ /\ run' = [run EXCEPT ![r] =
                        [Answered(run[r], NoErr) EXCEPT
                            !.pc = "balanceOf",
                            !.calls = Append(@, BalanceOfCall(run[r].option.asset))]]
          /\ UNCHANGED <<loading, error>>
       \/ \E e \in WalletErrors : FailPayment(r, Answered(run[r], e), "account", e)
    /\ UNCHANGED <<user, hasEthereum, viewVars, walletChain, session, login, logouts>>

\* A transfer whose recipient is the token contract.
TransferOf_ToAsset(option) ==
    TransferCall(option.asset, option.asset, option.maxAmountRequired)

\* The transfer executePayment submits for an option.
TransferOf(option) == TransferCall(option.asset, option.payTo, option.maxAmountRequired)

\* balanceOf settles: the pre-flight check, then tokenContract.transfer
BalanceAnswered(r) ==
    /\ run[r].pc = "balanceOf"
    /\ \/ \E balance \in 0..MaxBalance :
             LET rec == [Answered(run[r], NoErr) EXCEPT !.balance = Num(balance)]
                 requiredAmount == run[r].option.maxAmountRequired
             IN IF InsufficientBalance(balance, requiredAmount)
                THEN FailPayment(r, rec, "balance",
                                 InsufficientBalanceError(requiredAmount, balance))
                ELSE /\ run' = [run EXCEPT ![r] =
                                   [rec EXCEPT !.pc = "transfer",
                                               !.calls = Append(@, TransferOf(run[r].option))]]
                     /\ UNCHANGED <<loading, error>>
       \/ \E e \in WalletErrors : FailPayment(r, Answered(run[r], e), "balance", e)
    /\ UNCHANGED <<user, hasEthereum, viewVars, walletChain, session, login, logouts>>

\* The hash returned, and the request reissued, as soon as the transfer is
\* submitted.
TransferAnswered_NoWait(r) ==
    /\ run[r].pc = "transfer"
    /\ \/ \E hash \in TxHashes :
             /\ run' = [run EXCEPT ![r] =
                           [Answered(run[r], NoErr) EXCEPT
                               !.pc = "retry", !.txHash = hash,
                               !.reqs = Append(@, Request(run[r].plan,
                                             createPaymentToken(hash, run[r].config.chainIdDec)))]]
             /\ UNCHANGED <<loading, error>>
       \/ \E e \in WalletErrors : FailPayment(r, Answered(run[r], e), "transfer", e)
    /\ UNCHANGED <<user, hasEthereum, viewVars, walletChain, session, login, logouts>>

\* tokenContract.transfer settles: the transaction is submitted, tx.wait(1)
TransferAnswered(r) ==
    /\ run[r].pc = "transfer"
    /\ \/ \E hash \in TxHashes :
             /\ run' = [run EXCEPT ![r] =
                           [Answered(run[r], NoErr) EXCEPT
                               !.pc = "wait", !.txHash = hash,
                               !.calls = Append(@, WaitCall(1))]]
             /\ UNCHANGED <<loading, error>>
       \/ \E e \in WalletErrors : FailPayment(r, Answered(run[r], e), "transfer", e)
    /\ UNCHANGED <<user, hasEthereum, viewVars, walletChain, session, login, logouts>>

\* The retried request sent without the header.
RetryHeaders_Missing(txHash, config) == NoHeader

\* A proof built from a hash that is not the activation's own.
RetryHeaders_OtherHash(txHash, config) ==
    createPaymentToken(<<48, 120, 97, 49>>, config.chainIdDec)

\* headers of the retried request
RetryHeaders(txHash, config) == createPaymentToken(txHash, config.chainIdDec)

\* A confirmation wait whose failure is passed over: the request is reissued
\* with the proof all the same.
WaitAnswered_IgnoresFailure(r) ==
    /\ run[r].pc = "wait"
    /\ \E e \in WalletErrors \cup {NoErr} :
          /\ run' = [run EXCEPT ![r] =
                        [Answered(run[r], e) EXCEPT
                                  !.pc = "retry", !.confirmed = TRUE,
                                  !.reqs = Append(@, Request(run[r].plan,
                                                RetryHeaders(run[r].txHash, run[r].config)))]]
          /\ UNCHANGED <<loading, error>>
    /\ UNCHANGED <<user, hasEthereum, viewVars, walletChain, session, login, logouts>>

\* A confirmation wait whose failure submits the transfer again.
WaitAnswered_Resubmits(r) ==
    /\ run[r].pc = "wait"
    /\ \/ /\ run' = [run EXCEPT ![r] =
                        [Answered(run[r], NoErr) EXCEPT
                                  !.pc = "retry", !.confirmed = TRUE,
                                  !.reqs = Append(@, Request(run[r].plan,
                                                RetryHeaders(run[r].txHash, run[r].config)))]]
          /\ UNCHANGED <<loading, error>>
       \/ \E e \in WalletErrors :
             /\ run' = [run EXCEPT ![r] =
                           [Answered(run[r], e) EXCEPT
                               !.pc = "transfer",
                               !.calls = Append(@, TransferOf(run[r].option))]]
             /\ UNCHANGED <<loading, error>>
    /\ UNCHANGED <<user, hasEthereum, viewVars, walletChain, session, login, logouts>>

\* tx.wait(1) settles: executePayment returns tx.hash, handlePayment encodes
\* the proof and reissues the request
WaitAnswered(r) ==
    /\ run[r].pc = "wait"
    /\ \/ /\ run' = [run EXCEPT ![r] =
                        [Answered(run[r], NoErr) EXCEPT
                                  !.pc = "retry", !.confirmed = TRUE,
                                  !.reqs = Append(@, Request(run[r].plan,
                                                RetryHeaders(run[r].txHash, run[r].config)))]]
          /\ UNCHANGED <<loading, error>>
       \/ \E e \in WalletErrors : FailPayment(r, Answered(run[r], e), "confirm", e)
    /\ UNCHANGED <<user, hasEthereum, viewVars, walletChain, session, login, logouts>>

RetryStatuses == {0, 401, 402, 500}

\* A retried request whose rejection starts the payment flow again.
RetryAnswered_Renegotiates(r) ==
    /\ run[r].pc = "retry"
    /\ \/ \E hasUrl \in BOOLEAN :
             Succeed(r, [run[r] EXCEPT !.retryStatus = Num(200)], hasUrl)
       \/ \E ax \in AxiosErrors(RetryStatuses) :
             /\ run' = [run EXCEPT ![r] =
                           [@ EXCEPT !.retryStatus = Num(ax.status), !.pc = "getNetwork",
                                     !.calls = Append(@, Call("getNetwork"))]]
             /\ UNCHANGED <<loading, error>>
    /\ UNCHANGED <<user, hasEthereum, viewVars, walletChain, session, login, logouts>>

\* the retried request settles
RetryAnswered(r) ==
    /\ run[r].pc = "retry"
    /\ \/ \E hasUrl \in BOOLEAN :
             Succeed(r, [run[r] EXCEPT !.retryStatus = Num(200)], hasUrl)
       \/ \E ax \in AxiosErrors(RetryStatuses) :
             FailPayment(r, [run[r] EXCEPT !.retryStatus = Num(ax.status)], "retry", ax.err)
    /\ UNCHANGED <<user, hasEthereum, viewVars, walletChain, session, login, logouts>>

\* ------------------------------------------------------------- session
\* checkSession (called from onMounted): the /user/me request settles
SessionAnswered ==
    /\ session = "wait"
    /\ session' = "done"
    /\ \/ user' \in Users \cup {NoUser}
       \/ user' = NoUser
    /\ UNCHANGED <<loading, error, hasEthereum, viewVars, walletChain, run, login, logouts>>

\* catch of connectAndLogin: err.response?.data?.error || err.message || 'Login failed'
LoginErrText(dataError, e) == OrElse(dataError, OrElse(e.message, Msg("Login failed")))

\* catch and finally of connectAndLogin
FailLogin(dataError, e) ==
    /\ login' = "idle"
    /\ error' = LoginErrText(dataError, e)
    /\ loading' = FALSE
    /\ UNCHANGED user

\* @click="connectAndLogin": up to provider.getSigner()
StartLogin ==
    /\ LoginBoxRendered
    /\ IF hasEthereum
       THEN /\ login' = "getSigner"
            /\ error' = EmptyMsg
            /\ loading' = TRUE
            /\ UNCHANGED user
       ELSE FailLogin(EmptyMsg, Err("", "", Msg("Please install MetaMask.")))
    /\ run' = Forgotten
    /\ UNCHANGED <<hasEthereum, viewVars, walletChain, session, logouts>>

\* A connectAndLogin that signs before it has asked for the nonce.
LoginNext_SignsBeforeNonce(pc) ==
    CASE pc = "getSigner" -> "getNetwork"
      [] pc = "getNetwork" -> "sign"
      [] pc = "sign" -> "nonce"
      [] pc = "nonce" -> "verify"
      [] OTHER -> "idle"

LoginNext(pc) ==
    CASE pc = "getSigner" -> "getNetwork"
      [] pc = "getNetwork" -> "nonce"
      [] pc = "nonce" -> "sign"
      [] pc = "sign" -> "verify"
      [] OTHER -> "idle"

\* a wallet call of connectAndLogin settles (getSigner with getAddress,
\* getNetwork, signMessage)
LoginWalletAnswered ==
    /\ login \in {"getSigner", "getNetwork", "sign"}
    /\ \/ /\ login' = LoginNext(login)
          /\ UNCHANGED <<user, loading, error>>
       \/ \E e \in WalletErrors : FailLogin(EmptyMsg, e)
    /\ UNCHANGED <<hasEthereum, viewVars, walletChain, run, session, logouts>>

\* the /user/nonce request settles
NonceAnswered ==
    /\ login = "nonce"
    /\ \/ /\ login' = LoginNext(login)
          /\ UNCHANGED <<user, loading, error>>
       \/ \E ax \in RequestErrors : FailLogin(ax.dataError, ax.err)
    /\ UNCHANGED <<hasEthereum, viewVars, walletChain, run, session, logouts>>

\* the /user/verify request settles
VerifyAnswered ==
    /\ login = "verify"
    /\ \/ /\ login' = "idle"
          /\ user' \in Users \cup {NoUser}
          /\ loading' = FALSE
          /\ UNCHANGED error
       \/ \E ax \in RequestErrors : FailLogin(ax.dataError, ax.err)
    /\ UNCHANGED <<hasEthereum, viewVars, walletChain, run, session, logouts>>

\* @click="logout": the /user/logout request is sent
StartLogout ==
    /\ LoggedInBoxRendered
    /\ logouts < MaxLogouts
    /\ logouts' = logouts + 1
    /\ run' = Forgotten
    /\ UNCHANGED <<user, loading, error, hasEthereum, viewVars, walletChain, session, login>>

\* the /user/logout request settles
LogoutAnswered ==
    /\ logouts > 0
    /\ logouts' = logouts - 1
    /\ \/ user' = NoUser
       \/ UNCHANGED user
    /\ UNCHANGED <<loading, error, hasEthereum, viewVars, walletChain, run, session, login>>

\* ------------------------------------------------ interceptor-based view
\* The view that leaves the payment to x402-axios: setupWallet, checkSession,
\* connectAndLogin and handlePayment differ from the explicit flow; logout,
\* handleSuccess, the template's three boxes and handlePayment up to its
\* request are the same code.
Accounts == {"0xAlice", "0xBob"}
NoAccount == ""

\* createWalletClient({ account: address, chain: baseSepolia, transport })
WalletClientFor(address) == [account |-> address]
NoClient == WalletClientFor(NoAccount)

\* A setupWallet that installs an interceptor at every call.
setupWallet_AlwaysInstalls(address) ==
    IF ~hasEthereum
    THEN UNCHANGED <<walletClient, interceptorInstalled, interceptors>>
    ELSE /\ walletClient' = WalletClientFor(address)
         /\ interceptors' = Append(interceptors, WalletClientFor(address))
         /\ interceptorInstalled' = TRUE

\* setupWallet(address)
setupWallet(address) ==
    IF ~hasEthereum
    THEN UNCHANGED <<walletClient, interceptorInstalled, interceptors>>
    ELSE /\ walletClient' = WalletClientFor(address)
         /\ IF ~interceptorInstalled
            THEN /\ interceptors' = Append(interceptors, WalletClientFor(address))
                 /\ interceptorInstalled' = TRUE
            ELSE UNCHANGED <<interceptorInstalled, interceptors>>

\* checkSession: the /user/me request settles; a logged-in user with a wallet
\* present goes on to tempClient.requestAddresses()
SessionRestored ==
    /\ session = "wait"
    /\ \/ \E u \in Users \cup {NoUser} :
             /\ user' = u
             /\ session' = IF u # NoUser /\ hasEthereum THEN "requestAddresses" ELSE "done"
       \/ /\ user' = NoUser
          /\ session' = "done"
    /\ UNCHANGED <<loading, error, hasEthereum, viewVars, walletChain, run, login, logouts>>

\* checkSession: requestAddresses settles; an address sets the wallet up, a
\* rejection is logged
SessionAddressesAnswered ==
    /\ session = "requestAddresses"
    /\ session' = "done"
    /\ \/ \E address \in Accounts \cup {NoAccount} :
             IF address # NoAccount THEN setupWallet(address)
             ELSE UNCHANGED <<walletClient, interceptorInstalled, interceptors>>
       \/ UNCHANGED <<walletClient, interceptorInstalled, interceptors>>
    /\ UNCHANGED <<user, loading, error, hasEthereum, pageVars, walletChain, run, login, logouts>>

\* @click="connectAndLogin": up to tempClient.requestAddresses()
StartClientLogin ==
    /\ LoginBoxRendered
    /\ IF hasEthereum
       THEN /\ login' = "requestAddresses"
            /\ error' = EmptyMsg
            /\ loading' = TRUE
            /\ UNCHANGED user
       ELSE FailLogin(EmptyMsg, Err("", "", Msg("Please install MetaMask.")))
    /\ run' = Forgotten
    /\ UNCHANGED <<hasEthereum, viewVars, walletChain, session, logouts>>

\* connectAndLogin: requestAddresses settles; setupWallet(address), then
\* walletClient.getChainId()
LoginAddressesAnswered ==
    /\ login = "requestAddresses"
    /\ \/ \E address \in Accounts :
             /\ setupWallet(address)
             /\ IF walletClient' = NoClient
                THEN FailLogin(EmptyMsg, Err("", "", Msg("Wallet initialization failed")))
                ELSE /\ login' = "getChainId"
                     /\ UNCHANGED <<user, loading, error>>
       \/ /\ FailLogin(EmptyMsg, Err("", "", Msg("No account found")))
          /\ UNCHANGED <<walletClient, interceptorInstalled, interceptors>>
       \/ /\ \E e \in WalletErrors : FailLogin(EmptyMsg, e)
          /\ UNCHANGED <<walletClient, interceptorInstalled, interceptors>>
    /\ UNCHANGED <<hasEthereum, pageVars, walletChain, run, session, logouts>>

ClientLoginNext(pc) ==
    CASE pc = "getChainId" -> "getNonce"
      [] pc = "getNonce" -> "signMessage"
      [] pc = "signMessage" -> "postVerify"
      [] OTHER -> "idle"

\* a wallet call of connectAndLogin settles (getChainId, signMessage)
ClientCallAnswered ==
    /\ login \in {"getChainId", "signMessage"}
    /\ \/ /\ login' = ClientLoginNext(login)
          /\ UNCHANGED <<user, loading, error>>
       \/ \E e \in WalletErrors : FailLogin(EmptyMsg, e)
    /\ UNCHANGED <<hasEthereum, viewVars, walletChain, run, session, logouts>>

\* the /user/nonce request settles
ClientNonceAnswered ==
    /\ login = "getNonce"
    /\ \/ /\ login' = ClientLoginNext(login)
          /\ UNCHANGED <<user, loading, error>>
       \/ \E ax \in RequestErrors : FailLogin(ax.dataError, ax.err)
    /\ UNCHANGED <<hasEthereum, viewVars, walletChain, run, session, logouts>>

\* the /user/verify request settles
ClientVerifyAnswered ==
    /\ login = "postVerify"
    /\ \/ /\ login' = "idle"
          /\ user' \in Users \cup {NoUser}
          /\ loading' = FALSE
          /\ UNCHANGED error
       \/ \E ax \in RequestErrors : FailLogin(ax.dataError, ax.err)
    /\ UNCHANGED <<hasEthereum, viewVars, walletChain, run, session, logouts>>

\* What the promise of api.get can reject with once x402-axios sits on the
\* client: the request's own error, or what the wallet client threw while the
\* interceptor had it sign the payment.  viem reports a prompt the user
\* cancelled as an error whose cause carries the wallet's code 4001.
UserRejectedRequestError ==
    ErrCausedBy("4001", "", "4001", Msg("library message A"))
SigningErrors ==
    {UserRejectedRequestError}
    \cup {Err("UNKNOWN_ERROR", "", text) : text \in LibraryTexts}
Thrown(e) == [status |-> 0, dataError |-> EmptyMsg, err |-> e]
InterceptedErrors ==
    AxiosErrors(RetryStatuses)
    \cup (IF interceptors # <<>> THEN {Thrown(e) : e \in SigningErrors} ELSE {})

\* A catch block without the branch for a cancelled prompt.
InterceptedErrText_OneBranch(x) ==
    OrElse(x.dataError, OrElse(x.err.message, Msg("Request failed")))

\* catch (err) of handlePayment in the interceptor-based view
InterceptedErrText(x) ==
    IF x.err.code = "ACTION_REJECTED" \/ x.err.cause = "4001"
    THEN Msg("You rejected the transaction.")
    ELSE OrElse(x.dataError, OrElse(x.err.message, Msg("Request failed")))

\* handlePayment: the request, with whatever the interceptor did for it,
\* settles
InterceptedRequestAnswered(r) ==
    /\ run[r].pc = "get1"
    /\ \/ \E hasUrl \in BOOLEAN : Succeed(r, run[r], hasUrl)
       \/ \E x \in InterceptedErrors :
             /\ run' = [run EXCEPT ![r] =
                           [@ EXCEPT !.pc = "done", !.outcome = "failed",
                                     !.failedAt = "request", !.thrown = x.err,
                                     !.shown = InterceptedErrText(x)]]
             /\ error' = InterceptedErrText(x)
             /\ loading' = FALSE
    /\ UNCHANGED <<user, hasEthereum, viewVars, walletChain, session, login, logouts>>

\* ------------------------------------------------- plan-selecting view
\* The interceptor-based view with a plan to select: setupWallet,
\* checkSession, connectAndLogin, logout and the catch of handlePayment are
\* the same code; handlePayment takes the plan and the amount from refs.
\* The data type and the period, which only go into the request's path and
\* body, are left out.
PlanKeys == {"free", "base", "pay-as-you-go"}

\* Amounts are counted in thousandths of a dollar.
MinimumAmount == 10000
MaxAmountOffset == 2

\* payAsYouGoAmount: '10' at first; the number input, bound with v-model,
\* gives '' when it is empty or holds no number, and the number otherwise.
EmptyInput == Undef
InitialAmount == Num(MinimumAmount)
AmountInputs ==
    {EmptyInput, Num(0)}
    \cup {Num(MinimumAmount + d) : d \in (0 - MaxAmountOffset)..MaxAmountOffset}

\* The views without a plan to select have neither ref.
NoPlanToSelect == selectedPlan = "" /\ payAsYouGoAmount = EmptyInput

\* parseFloat(payAsYouGoAmount.value): NaN for '', the number itself for a
\* number (which it reads back from the number's decimal form)
NaN == Undef
parseFloat(value) == IF value = EmptyInput THEN NaN ELSE Num(value.n)
isNaN(amount) == ~amount.def

\* amount.toFixed(2), in cents: rounded to the nearest cent
toFixed2(amount) == Num((amount.n + 5) \div 10)

\* A test that only rejects what is not a number.
AmountRejected_NaNOnly(amount) == isNaN(amount)

\* isNaN(amount) || amount < 10
AmountRejected(amount) == isNaN(amount) \/ amount.n < MinimumAmount

\* api.post('/payment/pay-as-you-go/x402', { amount: amount.toFixed(2), ... })
PostRequest(plan, amount) ==
    [Request(plan, NoHeader) EXCEPT !.method = "POST", !.amount = toFixed2(amount)]

\* @click="selectedPlan = option.key"
SelectPlan(key) ==
    /\ LoggedInBoxRendered
    /\ selectedPlan' = key
    /\ UNCHANGED <<user, loading, error, hasEthereum, view, payAsYouGoAmount, walletClient,
                   interceptorInstalled, interceptors, walletChain, run, session, login,
                   logouts>>

\* v-model="payAsYouGoAmount" on the input shown for the pay-as-you-go plan
EnterAmount(value) ==
    /\ LoggedInBoxRendered
    /\ selectedPlan = "pay-as-you-go"
    /\ payAsYouGoAmount' = value
    /\ UNCHANGED <<user, loading, error, hasEthereum, view, selectedPlan, walletClient,
                   interceptorInstalled, interceptors, walletChain, run, session, login,
                   logouts>>

\* @click="handlePayment": up to the await of the request, or, for an amount
\* that is rejected, to the return (and the finally block after it)
StartPlanPayment(r) ==
    /\ LoggedInBoxRendered
    /\ FreeSlot(r)
    /\ LET amount == parseFloat(payAsYouGoAmount)
           started == [IdleRun EXCEPT !.pc = "get1", !.plan = selectedPlan]
       IN IF selectedPlan = "pay-as-you-go" /\ AmountRejected(amount)
          THEN /\ error' = Msg("Minimum amount is $10")
               /\ loading' = FALSE
               /\ run' = [Forgotten EXCEPT ![r] =
                             [started EXCEPT !.pc = "done", !.outcome = "failed",
                                             !.failedAt = "amount",
                                             !.shown = Msg("Minimum amount is $10")]]
          ELSE /\ error' = EmptyMsg
               /\ loading' = TRUE
               /\ run' = [Forgotten EXCEPT ![r] =
                             [started EXCEPT !.reqs =
                                 IF selectedPlan = "pay-as-you-go"
                                 THEN <<PostRequest(selectedPlan, amount)>>
                                 ELSE <<Request(selectedPlan, NoHeader)>>]]
    /\ UNCHANGED <<user, hasEthereum, viewVars, walletChain, session, login, logouts>>

\* ------------------------------------------------------- login-only view
\* HomeView.vue: the login page without payment.  connectAndLogin and logout
\* are the code of the explicit flow but for the text of the missing-wallet
\* error; checkSession also drives loading.

\* checkSession: the /user/me request settles, then finally
HomeSessionAnswered ==
    /\ session = "wait"
    /\ session' = "done"
    /\ \/ user' \in Users \cup {NoUser}
       \/ user' = NoUser
    /\ loading' = FALSE
    /\ UNCHANGED <<error, hasEthereum, viewVars, walletChain, run, login, logouts>>

\* @click="connectAndLogin": up to provider.getSigner()
StartHomeLogin ==
    /\ LoginBoxRendered
    /\ IF hasEthereum
       THEN /\ login' = "getSigner"
            /\ error' = EmptyMsg
            /\ loading' = TRUE
            /\ UNCHANGED user
       ELSE FailLogin(EmptyMsg,
                      Err("", "", Msg("No crypto wallet found. Please install MetaMask.")))
    /\ UNCHANGED <<hasEthereum, viewVars, walletChain, run, session, logouts>>

\* ------------------------------------------------------- specification
Init ==
    /\ user = NoUser
    /\ loading = FALSE
    /\ error = EmptyMsg
    /\ hasEthereum \in BOOLEAN
    /\ walletChain \in WalletChains
    /\ run = [r \in Runs |-> IdleRun]
    /\ session = "wait"
    /\ login = "idle"
    /\ logouts = 0
    /\ view = "explicit"
    /\ walletClient = NoClient
    /\ interceptorInstalled = FALSE
    /\ interceptors = <<>>
    /\ NoPlanToSelect

Next ==
    \/ \E r \in Runs, plan \in Plans : StartPayment(r, plan)
    \/ \E r \in Runs : FirstRequestSucceeds(r)
    \/ \E r \in Runs : FirstRequestFails(r)
    \/ \E r \in Runs : FirstRequestPaymentRequired(r)
    \/ \E r \in Runs : NetworkRead(r)
    \/ \E r \in Runs : SwitchAnswered(r)
    \/ \E r \in Runs : AddChainAnswered(r)
    \/ \E r \in Runs : SignerAnswered(r)
    \/ \E r \in Runs : BalanceAnswered(r)
    \/ \E r \in Runs : TransferAnswered(r)
    \/ \E r \in Runs : WaitAnswered(r)
    \/ \E r \in Runs : RetryAnswered(r)
    \/ SessionAnswered
    \/ StartLogin
    \/ LoginWalletAnswered
    \/ NonceAnswered
    \/ VerifyAnswered
    \/ StartLogout
    \/ LogoutAnswered

Spec == Init /\ [][Next]_vars

\* An await of handlePayment settles: the promise of a request, of a wallet
\* call or of the confirmation wait resolves or rejects.
Settles(r) ==
    \/ FirstRequestSucceeds(r)
    \/ FirstRequestFails(r)
    \/ FirstRequestPaymentRequired(r)
    \/ NetworkRead(r)
    \/ SwitchAnswered(r)
    \/ AddChainAnswered(r)
    \/ SignerAnswered(r)
    \/ BalanceAnswered(r)
    \/ TransferAnswered(r)
    \/ WaitAnswered(r)
    \/ RetryAnswered(r)

\* the explicit flow, every external call of a payment eventually returning
\* or failing
SpecLive == Init /\ [][Next]_vars /\ \A r \in Runs : WF_vars(Settles(r))

\* the interceptor-based view, mounted
InitInterceptor ==
    /\ user = NoUser
    /\ loading = FALSE
    /\ error = EmptyMsg
    /\ hasEthereum \in BOOLEAN
    /\ walletChain \in WalletChains
    /\ run = [r \in Runs |-> IdleRun]
    /\ session = "wait"
    /\ login = "idle"
    /\ logouts = 0
    /\ view = "interceptor"
    /\ walletClient = NoClient
    /\ interceptorInstalled = FALSE
    /\ interceptors = <<>>
    /\ NoPlanToSelect

NextInterceptor ==
    \/ \E r \in Runs, plan \in Plans : StartPayment(r, plan)
    \/ \E r \in Runs : InterceptedRequestAnswered(r)
    \/ SessionRestored
    \/ SessionAddressesAnswered
    \/ StartClientLogin
    \/ LoginAddressesAnswered
    \/ ClientCallAnswered
    \/ ClientNonceAnswered
    \/ ClientVerifyAnswered
    \/ StartLogout
    \/ LogoutAnswered

SpecInterceptor == InitInterceptor /\ [][NextInterceptor]_vars

\* the plan-selecting view, mounted
InitPlans ==
    /\ user = NoUser
    /\ loading = FALSE
    /\ error = EmptyMsg
    /\ hasEthereum \in BOOLEAN
    /\ walletChain \in WalletChains
    /\ run = [r \in Runs |-> IdleRun]
    /\ session = "wait"
    /\ login = "idle"
    /\ logouts = 0
    /\ view = "plans"
    /\ walletClient = NoClient
    /\ interceptorInstalled = FALSE
    /\ interceptors = <<>>
    /\ selectedPlan = "free"
    /\ payAsYouGoAmount = InitialAmount

NextPlans ==
    \/ \E key \in PlanKeys : SelectPlan(key)
    \/ \E value \in AmountInputs : EnterAmount(value)
    \/ \E r \in Runs : StartPlanPayment(r)
    \/ \E r \in Runs : InterceptedRequestAnswered(r)
    \/ SessionRestored
    \/ SessionAddressesAnswered
    \/ StartClientLogin
    \/ LoginAddressesAnswered
    \/ ClientCallAnswered
    \/ ClientNonceAnswered
    \/ ClientVerifyAnswered
    \/ StartLogout
    \/ LogoutAnswered

SpecPlans == InitPlans /\ [][NextPlans]_vars

\* the login-only view, mounted: onMounted has called checkSession, which set
\* loading and awaits its request
InitHome ==
    /\ user = NoUser
    /\ loading = TRUE
    /\ error = EmptyMsg
    /\ hasEthereum \in BOOLEAN
    /\ walletChain \in WalletChains
    /\ run = [r \in Runs |-> IdleRun]
    /\ session = "wait"
    /\ login = "idle"
    /\ logouts = 0
    /\ view = "home"
    /\ walletClient = NoClient
    /\ interceptorInstalled = FALSE
    /\ interceptors = <<>>
    /\ NoPlanToSelect

\* any of the three views, mounted
InitViews == Init \/ InitInterceptor \/ InitHome
NextViews ==
    \/ view = "explicit" /\ \E r \in Runs, plan \in Plans : StartPayment(r, plan)
    \/ view = "explicit" /\ \E r \in Runs : FirstRequestSucceeds(r)
    \/ view = "explicit" /\ \E r \in Runs : FirstRequestFails(r)
    \/ view = "explicit" /\ \E r \in Runs : FirstRequestPaymentRequired(r)
    \/ view = "explicit" /\ \E r \in Runs : NetworkRead(r)
    \/ view = "explicit" /\ \E r \in Runs : SwitchAnswered(r)
    \/ view = "explicit" /\ \E r \in Runs : AddChainAnswered(r)
    \/ view = "explicit" /\ \E r \in Runs : SignerAnswered(r)
    \/ view = "explicit" /\ \E r \in Runs : BalanceAnswered(r)
    \/ view = "explicit" /\ \E r \in Runs : TransferAnswered(r)
    \/ view = "explicit" /\ \E r \in Runs : WaitAnswered(r)
    \/ view = "explicit" /\ \E r \in Runs : RetryAnswered(r)
    \/ view = "explicit" /\ SessionAnswered
    \/ view = "explicit" /\ StartLogin
    \/ view = "explicit" /\ LoginWalletAnswered
    \/ view = "explicit" /\ NonceAnswered
    \/ view = "explicit" /\ VerifyAnswered
    \/ view = "explicit" /\ StartLogout
    \/ view = "explicit" /\ LogoutAnswered
    \/ view = "interceptor" /\ \E r \in Runs, plan \in Plans : StartPayment(r, plan)
    \/ view = "interceptor" /\ \E r \in Runs : InterceptedRequestAnswered(r)
    \/ view = "interceptor" /\ SessionRestored
    \/ view = "interceptor" /\ SessionAddressesAnswered
    \/ view = "interceptor" /\ StartClientLogin
    \/ view = "interceptor" /\ LoginAddressesAnswered
    \/ view = "interceptor" /\ ClientCallAnswered
    \/ view = "interceptor" /\ ClientNonceAnswered
    \/ view = "interceptor" /\ ClientVerifyAnswered
    \/ view = "interceptor" /\ StartLogout
    \/ view = "interceptor" /\ LogoutAnswered
    \/ view = "home" /\ HomeSessionAnswered
    \/ view = "home" /\ StartHomeLogin
    \/ view = "home" /\ LoginWalletAnswered
    \/ view = "home" /\ NonceAnswered
    \/ view = "home" /\ VerifyAnswered
    \/ view = "home" /\ StartLogout
    \/ view = "home" /\ LogoutAnswered

SpecViews == InitViews /\ [][NextViews]_vars

\* createPaymentToken on its own: the arguments it can be called with, a
\* hash being 0x and hex digits, a chain id a number or undefined
HashDigits == {48, 97, 102}
HashInputs == {<<48, 120>> \o ds : ds \in SeqsUpTo(HashDigits, MaxHashDigits)}
ChainIdInputs == {Undef} \cup {Num(n) : n \in WalletChains \cup {0}}

EncodeProof(txHash, chainId) ==
    /\ run[1].pc = "idle"
    /\ run' = [run EXCEPT ![1] =
                  [IdleRun EXCEPT !.pc = "encoded", !.txHash = txHash,
                                  !.config = [Undefined EXCEPT !.chainIdDec = chainId],
                                  !.reqs = <<Request("", createPaymentToken(txHash, chainId))>>]]
    /\ UNCHANGED <<user, loading, error, hasEthereum, viewVars, walletChain, session, login,
                   logouts>>

InitToken ==
    /\ user = NoUser
    /\ loading = FALSE
    /\ error = EmptyMsg
    /\ hasEthereum = TRUE
    /\ walletChain = 84532
    /\ run = [r \in Runs |-> IdleRun]
    /\ session = "done"
    /\ login = "idle"
    /\ logouts = 0
    /\ view = "explicit"
    /\ walletClient = NoClient
    /\ interceptorInstalled = FALSE
    /\ interceptors = <<>>
    /\ NoPlanToSelect

NextToken == \E txHash \in HashInputs, chainId \in ChainIdInputs : EncodeProof(txHash, chainId)

SpecToken == InitToken /\ [][NextToken]_vars

\* =================================================================== claims
Last(q) == q[Len(q)]
CallOps(rec) == {rec.calls[i].op : i \in DOMAIN rec.calls}
CountOp(rec, op) == Cardinality({i \in DOMAIN rec.calls : rec.calls[i].op = op})

\* The balance read for option.asset is below option.maxAmountRequired.
BalanceShort(rec) == rec.balance.def /\ rec.balance.n < rec.option.maxAmountRequired

\* What the page shows for an error caught in the payment flow.
ShownFor(e) ==
    IF e.code = "ACTION_REJECTED" THEN Msg("You rejected the transaction.")
    ELSE IF e.message # EmptyMsg THEN e.message
    ELSE Msg("Payment execution failed")

\* The activation ended in the failed outcome with the error e.
EndsFailedWith(rec, e) ==
    /\ rec.pc = "done"
    /\ rec.outcome = "failed"
    /\ rec.delivered = "none"
    /\ rec.thrown = e
    /\ rec.shown = ShownFor(e)
    /\ error = rec.shown
    /\ ~loading

\* C1: whenever the balance read for option.asset is strictly below
\* option.maxAmountRequired, the activation fails with the insufficient-balance
\* error, whose message carries the required and the available amount, and no
\* transfer is submitted in it.
C1_InsufficientBalanceStopsTransfer ==
    \A r \in Runs :
        BalanceShort(run[r]) =>
            /\ run[r].pc = "done"
            /\ run[r].outcome = "failed"
            /\ run[r].thrown.message.text =
                  "Insufficient Token Balance. You need ${requiredAmount} units of the token, but you only have ${balance}."
            /\ run[r].thrown.message.nums =
                  <<run[r].option.maxAmountRequired, run[r].balance.n>>
            /\ run[r].shown = run[r].thrown.message
            /\ "transfer" \notin CallOps(run[r])
            /\ Last(run[r].calls).op = "balanceOf"

C1_Witness ==
    \E r \in Runs :
        /\ BalanceShort(run[r])
        /\ run[r].balance.n > 0
        /\ run[r].pc = "done"

\* C2: no activation issues more than two requests; one whose first request
\* was answered 402 and whose payment was confirmed has reissued the original
\* request exactly once, with createPaymentToken's proof as X-Payment.
C2_RetriedOnceWithProof ==
    \A r \in Runs :
        /\ Len(run[r].reqs) <= 2
        /\ (run[r].firstStatus = Num(402) /\ run[r].confirmed) =>
              /\ Len(run[r].reqs) = 2
              /\ run[r].reqs[1].xPayment = NoHeader
              /\ run[r].reqs[2].plan = run[r].reqs[1].plan
              /\ run[r].reqs[2].xPayment # NoHeader
              /\ run[r].reqs[2].xPayment =
                    createPaymentToken(run[r].txHash, run[r].config.chainIdDec)

C2_Witness ==
    \E r \in Runs :
        /\ run[r].firstStatus = Num(402)
        /\ run[r].confirmed
        /\ run[r].pc = "done"
        /\ run[r].outcome = "success"

\* C3: at most one activation of handlePayment is in flight at any time.
C3_OneNegotiationInFlight == Cardinality({r \in Runs : InFlight(r)}) <= 1

C3_Witness ==
    \E r \in Runs :
        /\ run[r].pc = "transfer"
        /\ user # NoUser
        /\ loading

\* The first option of the list whose network is a key of the table (0: none).
RECURSIVE FirstConfiguredFrom(_, _)
FirstConfiguredFrom(accepts, i) ==
    IF i > Len(accepts) THEN 0
    ELSE IF accepts[i].network \in DOMAIN NETWORK_MAP THEN i
    ELSE FirstConfiguredFrom(accepts, i + 1)
FirstConfigured(accepts) == FirstConfiguredFrom(accepts, 1)

\* C4: for a list with at least one option whose network is a key of the
\* registry table, the option selected is the first such option in list order
\* and the config is the table's entry for its network.
C4_FirstConfiguredOptionSelected ==
    \A r \in Runs :
        (run[r].negotiating /\ FirstConfigured(run[r].accepts) # 0) =>
            /\ run[r].option = run[r].accepts[FirstConfigured(run[r].accepts)]
            /\ run[r].config = NETWORK_MAP[run[r].option.network]

\* C5: for a list in which no option's network is a key of the registry table,
\* the activation fails with the unsupported-network error listing exactly the
\* offered network tokens in order, and makes no wallet call.
C5_NoConfiguredOptionFails ==
    \A r \in Runs :
        (run[r].negotiating /\ FirstConfigured(run[r].accepts) = 0) =>
            /\ run[r].pc = "done"
            /\ run[r].outcome = "failed"
            /\ run[r].thrown.message.text =
                  "No supported payment network found. Server accepts: ${join}"
            /\ run[r].thrown.message.strs = NetworksOf(run[r].accepts)
            /\ run[r].calls = <<>>

\* C6: an option is selected only if its network token is a key of the
\* registry table, and the config that goes with it is the table's entry.
C6_SelectedOnlyIfConfigured ==
    \A r \in Runs :
        run[r].option # NoOption =>
            /\ run[r].option.network \in DOMAIN NETWORK_MAP
            /\ run[r].config = NETWORK_MAP[run[r].option.network]

\* A wallet call that rejected, other than a switch request rejected with the
\* unrecognized-chain condition (which ensureNetwork answers by registering
\* the chain).
CallFailed(c) ==
    /\ c.err # NoErr
    /\ ~(c.op = "wallet_switchEthereumChain" /\ (c.err.code = "4902" \/ c.err.inner = "4902"))

\* No option of the list under negotiation has a lookup the matcher accepts.
MatchFails(rec) ==
    rec.negotiating /\ \A i \in DOMAIN rec.accepts : ~ConfigTruthy(Lookup(rec.accepts[i].network))

\* C7: when a step of the payment flow fails (matching, a wallet call of the
\* chain switch, the account or balance read, the transfer, the confirmation
\* wait, or the balance check), the activation is in the failed outcome with
\* that step's error, the failed call is the last wallet call made, and no
\* retried request is sent.
C7_FailedStepEndsRun ==
    \A r \in Runs :
        /\ \A i \in DOMAIN run[r].calls :
              CallFailed(run[r].calls[i]) =>
                  /\ i = Len(run[r].calls)
                  /\ EndsFailedWith(run[r], run[r].calls[i].err)
                  /\ Len(run[r].reqs) = 1
        /\ MatchFails(run[r]) =>
              /\ run[r].calls = <<>>
              /\ EndsFailedWith(run[r], NoSupportedNetwork(run[r].accepts))
              /\ Len(run[r].reqs) = 1
        /\ BalanceShort(run[r]) =>
              /\ Last(run[r].calls).op = "balanceOf"
              /\ EndsFailedWith(run[r], InsufficientBalanceError(
                                   run[r].option.maxAmountRequired, run[r].balance.n))
              /\ Len(run[r].reqs) = 1

C7_Witness ==
    \E r \in Runs :
        /\ Len(run[r].calls) = 2
        /\ Last(run[r].calls).op = "wallet_switchEthereumChain"
        /\ CallFailed(Last(run[r].calls))
        /\ run[r].pc = "done"

\* The retried request was answered, and not with success.
RetryRejected(rec) == rec.retryStatus.def /\ rec.retryStatus.n # 200

\* C8: when the retried request is rejected (a second 402 included), the
\* activation is in the failed outcome, having matched once, submitted one
\* transfer and issued two requests.
C8_RejectedRetryIsTerminal ==
    \A r \in Runs :
        RetryRejected(run[r]) =>
            /\ run[r].pc = "done"
            /\ run[r].outcome = "failed"
            /\ run[r].delivered = "none"
            /\ Len(run[r].reqs) = 2
            /\ CountOp(run[r], "getNetwork") = 1
            /\ CountOp(run[r], "transfer") = 1
            /\ Last(run[r].calls).op = "wait"

C8_Witness ==
    \E r \in Runs :
        /\ run[r].retryStatus = Num(402)
        /\ run[r].pc = "done"

\* What the page can show at the end of an activation whose payment itself
\* failed: a rejected wallet call, or a balance below the amount required.
PaymentFailureOutcomes ==
    {PayErrText(e) : e \in WalletErrors}
    \cup {PayErrText(InsufficientBalanceError(a, b)) : a \in 1..MaxAmount, b \in 0..MaxBalance}

\* C9: an activation whose transfer was confirmed and whose retried request
\* the server rejected ends in an outcome that no activation whose payment
\* failed ends in.
C9_RejectedProofIsDistinct ==
    \A r \in Runs :
        (run[r].confirmed /\ RetryRejected(run[r]) /\ run[r].retryStatus.n # 0) =>
            run[r].shown \notin PaymentFailureOutcomes

\* C10: when the first request succeeds, the payload is delivered by
\* handleSuccess and nothing of the payment flow happens: no matching, no
\* wallet call, no second request.
C10_SuccessSkipsPayment ==
    \A r \in Runs :
        run[r].firstStatus = Num(200) =>
            /\ run[r].pc = "done"
            /\ run[r].outcome = "success"
            /\ run[r].delivered \in {"redirect", "alert"}
            /\ run[r].option = NoOption
            /\ ~run[r].negotiating
            /\ run[r].calls = <<>>
            /\ Len(run[r].reqs) = 1

C10_Witness ==
    \E r \in Runs :
        /\ run[r].firstStatus = Num(200)
        /\ run[r].delivered = "redirect"

\* The call at position i resolved.
Resolved(rec, i) == rec.calls[i].settled /\ rec.calls[i].err = NoErr

\* The activation's transfer was submitted and tx.wait(1) resolved after it.
TransferConfirmed(rec) ==
    \E i \in DOMAIN rec.calls :
        /\ i > 1
        /\ rec.calls[i - 1].op = "transfer"
        /\ Resolved(rec, i - 1)
        /\ rec.calls[i] = [WaitCall(1) EXCEPT !.settled = TRUE]

\* C11: the transaction hash is handed back, the proof encoded and the request
\* reissued only after the submitted transfer has received one confirmation:
\* while tx.wait(1) is pending the activation has sent one request, and a
\* request carrying a proof exists only once tx.wait(1) has resolved.
C11_ProofOnlyAfterConfirmation ==
    \A r \in Runs :
        /\ run[r].pc = "wait" =>
              /\ run[r].txHash # <<>>
              /\ ~run[r].confirmed
              /\ Len(run[r].reqs) = 1
        /\ (run[r].confirmed \/ Len(run[r].reqs) > 1) =>
              /\ run[r].confirmed
              /\ TransferConfirmed(run[r])
        /\ \A i \in DOMAIN run[r].reqs :
              run[r].reqs[i].xPayment # NoHeader => TransferConfirmed(run[r])

C11_Witness ==
    \E r \in Runs :
        /\ run[r].pc = "retry"
        /\ TransferConfirmed(run[r])
        /\ Last(run[r].reqs).xPayment # NoHeader

\* How the libraries report a prompt the user cancelled: ethers with the code
\* ACTION_REJECTED, viem with a cause carrying the wallet's code 4001.
UserCancelled(e) == e.code = "ACTION_REJECTED" \/ e.cause = "4001"

RECURSIVE Atob(_)
Atob(t) ==
    IF Len(t) < 4 THEN <<>>
    ELSE <<t[1] * 4 + t[2] \div 16>>
         \o (IF t[3] = 64 THEN <<>>
             ELSE <<(t[2] % 16) * 16 + t[3] \div 4>>
                  \o (IF t[4] = 64 THEN <<>> ELSE <<(t[3] % 4) * 64 + t[4]>>))
         \o Atob(SubSeq(t, 5, Len(t)))

\* the position of the first double quote of s at or after i (0: none)
RECURSIVE QuoteFrom(_, _)
QuoteFrom(s, i) ==
    IF i > Len(s) THEN 0 ELSE IF s[i] = 34 THEN i ELSE QuoteFrom(s, i + 1)

\* the number written by decimal digits
RECURSIVE DecValue(_)
DecValue(ds) ==
    IF ds = <<>> THEN 0
    ELSE 10 * DecValue(SubSeq(ds, 1, Len(ds) - 1)) + (ds[Len(ds)] - 48)

\* JSON.parse of {"hash":"..."} or {"hash":"...","chainId":digits}
JsonParse(s) ==
    LET close == QuoteFrom(s, 10)
        rest == SubSeq(s, close + 1, Len(s))
    IN IF rest = <<125>>
       THEN [hash |-> SubSeq(s, 10, close - 1), hasChainId |-> FALSE, chainId |-> 0]
       ELSE [hash |-> SubSeq(s, 10, close - 1), hasChainId |-> TRUE,
             chainId |-> DecValue(SubSeq(rest, 12, Len(rest) - 1))]

\* the record a token decodes to, its chain id a number or undefined
DecodeToken(token) ==
    LET payload == JsonParse(Atob(token))
    IN [hash |-> payload.hash,
        chainId |-> IF payload.hasChainId THEN Num(payload.chainId) ELSE Undef]

\* C13: for every transaction hash and chain id, the token createPaymentToken
\* makes decodes to that hash and that chain id, and encoding the decoded
\* record gives the same token.
C13_TokenRoundTrips ==
    run[1].pc = "encoded" =>
        LET token == run[1].reqs[1].xPayment
            decoded == DecodeToken(token)
        IN /\ decoded.hash = run[1].txHash
           /\ decoded.chainId = run[1].config.chainIdDec
           /\ createPaymentToken(decoded.hash, decoded.chainId) = token

C13_Witness ==
    /\ run[1].pc = "encoded"
    /\ Len(run[1].txHash) = 2 + MaxHashDigits
    /\ run[1].config.chainIdDec = Num(84532)
    /\ DecodeToken(run[1].reqs[1].xPayment).chainId = Num(84532)

\* C14: the proof a retried request carries decodes to the hash of the
\* transfer confirmed in the same activation and to the numeric chain id of
\* the registry's entry for the matched network (84532 for base-sepolia), and
\* it is the token made of those two values alone.
C14_ProofIsHashAndChainOfRun ==
    \A r \in Runs :
        \A i \in DOMAIN run[r].reqs :
            run[r].reqs[i].xPayment # NoHeader =>
                LET decoded == DecodeToken(run[r].reqs[i].xPayment)
                    network == run[r].option.network
                IN /\ TransferConfirmed(run[r])
                   /\ decoded.hash = run[r].txHash
                   /\ decoded.chainId.def
                   /\ network \in DOMAIN NETWORK_MAP
                   /\ decoded.chainId = NETWORK_MAP[network].chainIdDec
                   /\ network = "base-sepolia" => decoded.chainId = Num(84532)
                   /\ run[r].reqs[i].xPayment =
                         createPaymentToken(run[r].txHash, NETWORK_MAP[network].chainIdDec)

\* The chain id provider.getNetwork() read in the activation (Undef: none).
ChainRead(rec) ==
    IF rec.calls # <<>> /\ rec.calls[1].op = "getNetwork" THEN rec.calls[1].value ELSE Undef

\* The wallet was found on the chain of the activation's config.
AlreadyOnChain(rec) ==
    /\ ChainRead(rec).def
    /\ rec.config.chainIdDec.def
    /\ ChainRead(rec).n = rec.config.chainIdDec.n

\* C15: when the chain id read from the wallet equals config.chainIdDec,
\* ensureNetwork returns at once: the activation sends no switch and no
\* add-chain request, its next wallet call is getSigner, and the wallet stays
\* on the chain that was read.
C15_SameChainIsNoOp ==
    \A r \in Runs :
        AlreadyOnChain(run[r]) =>
            /\ "wallet_switchEthereumChain" \notin CallOps(run[r])
            /\ "wallet_addEthereumChain" \notin CallOps(run[r])
            /\ CountOp(run[r], "getNetwork") = 1
            /\ Len(run[r].calls) >= 2
            /\ run[r].calls[2].op = "getSigner"
            /\ walletChain = ChainRead(run[r]).n

C15_Witness ==
    \E r \in Runs :
        /\ AlreadyOnChain(run[r])
        /\ run[r].pc = "transfer"

\* The switch request of the activation was rejected with the unrecognized-
\* chain condition.
SwitchUnrecognized(rec) ==
    \E i \in DOMAIN rec.calls :
        /\ rec.calls[i].op = "wallet_switchEthereumChain"
        /\ rec.calls[i].settled
        /\ (rec.calls[i].err.code = "4902" \/ rec.calls[i].err.inner = "4902")

\* C16: when the switch request is rejected with code 4902, the activation
\* sends one add-chain request, carrying the config's chainIdHex and chainName,
\* right after it, and once that request resolves ensureNetwork has returned:
\* the next call is getSigner, with no second switch request and no second
\* read of the chain id.
C16_UnrecognizedChainIsRegisteredOnce ==
    \A r \in Runs :
        SwitchUnrecognized(run[r]) =>
            /\ CountOp(run[r], "wallet_switchEthereumChain") = 1
            /\ CountOp(run[r], "wallet_addEthereumChain") = 1
            /\ CountOp(run[r], "getNetwork") = 1
            /\ Len(run[r].calls) >= 3
            /\ run[r].calls[2].op = "wallet_switchEthereumChain"
            /\ run[r].calls[3].op = "wallet_addEthereumChain"
            /\ run[r].calls[3].chain = run[r].config.chainIdHex
            /\ run[r].calls[3].chainName = run[r].config.chainName
            /\ Resolved(run[r], 3) =>
                  /\ Len(run[r].calls) >= 4
                  /\ run[r].calls[4].op = "getSigner"
                  /\ run[r].failedAt # "switch"

C16_Witness ==
    \E r \in Runs :
        /\ SwitchUnrecognized(run[r])
        /\ run[r].config = NETWORK_MAP["base-sepolia"]
        /\ Resolved(run[r], 3)
        /\ run[r].pc = "balanceOf"

\* The wallet was found on another chain and the switch request resolved.
SwitchedChain(rec) ==
    /\ ChainRead(rec).def
    /\ ~AlreadyOnChain(rec)
    /\ Len(rec.calls) >= 2
    /\ rec.calls[2].op = "wallet_switchEthereumChain"
    /\ Resolved(rec, 2)

\* C17: when the wallet is on another chain and the switch request resolves,
\* the calls that follow are getSigner, the balance read and the transfer, in
\* that order: the chain id is not read again and no second switch (and no
\* add-chain) request is sent.
C17_NoRecheckAfterSwitch ==
    \A r \in Runs :
        SwitchedChain(run[r]) =>
            /\ CountOp(run[r], "getNetwork") = 1
            /\ CountOp(run[r], "wallet_switchEthereumChain") = 1
            /\ "wallet_addEthereumChain" \notin CallOps(run[r])
            /\ Len(run[r].calls) >= 3
            /\ run[r].calls[3].op = "getSigner"
            /\ Len(run[r].calls) >= 4 => run[r].calls[4].op = "balanceOf"
            /\ Len(run[r].calls) >= 5 => run[r].calls[5].op = "transfer"

C17_Witness ==
    \E r \in Runs :
        /\ SwitchedChain(run[r])
        /\ run[r].config = NETWORK_MAP["sepolia"]
        /\ run[r].pc = "wait"

\* The switch request of the activation was rejected with an error other than
\* the unrecognized-chain condition.
SwitchFailed(rec) ==
    \E i \in DOMAIN rec.calls :
        rec.calls[i].op = "wallet_switchEthereumChain" /\ CallFailed(rec.calls[i])

\* What the page can show at the end of an activation whose transfer was
\* rejected by the user or failed.
TransactionFailureOutcomes == {PayErrText(e) : e \in WalletErrors}

\* C18: when the switch request is rejected with an error other than the
\* unrecognized-chain condition, no add-chain request is sent, the activation
\* fails with that very error before any account access, balance read or
\* transfer, and it ends in an outcome that no failed transaction ends in.
C18_SwitchFailureIsItsOwnOutcome ==
    \A r \in Runs :
        SwitchFailed(run[r]) =>
            /\ "wallet_addEthereumChain" \notin CallOps(run[r])
            /\ Len(run[r].calls) = 2
            /\ EndsFailedWith(run[r], run[r].calls[2].err)
            /\ CallOps(run[r]) \cap {"getSigner", "balanceOf", "transfer"} = {}
            /\ run[r].shown \notin TransactionFailureOutcomes

\* The pre-flight balance check of the activation failed: the balance read
\* was rejected, or the balance is below the amount required.
BalanceCheckFailed(rec) ==
    \/ BalanceShort(rec)
    \/ \E i \in DOMAIN rec.calls : rec.calls[i].op = "balanceOf" /\ CallFailed(rec.calls[i])

\* the requests that make the wallet show a prompt
WalletPrompts ==
    {"wallet_switchEthereumChain", "wallet_addEthereumChain", "getSigner", "transfer"}

\* C19: an activation whose pre-flight balance check failed has made no call
\* that makes the wallet prompt the user (chain switch, chain registration,
\* account access, signing).
C19_NoPromptBeforeBalanceCheck ==
    \A r \in Runs :
        BalanceCheckFailed(run[r]) => CallOps(run[r]) \cap WalletPrompts = {}

\* C20: an activation performs each step of the payment at most once (chain
\* id read, switch, registration, account access, balance read, transfer,
\* confirmation wait), so it submits at most one transfer, and it sends at
\* most two requests, the second being the one that carries the proof.
C20_NoStepRepeated ==
    \A r \in Runs :
        /\ \A op \in CallOps(run[r]) : CountOp(run[r], op) = 1
        /\ Len(run[r].reqs) <= 2
        /\ Len(run[r].reqs) = 2 =>
              /\ run[r].reqs[1].xPayment = NoHeader
              /\ run[r].reqs[2].xPayment # NoHeader
              /\ run[r].reqs[2].plan = run[r].reqs[1].plan

C20_Witness ==
    \E r \in Runs :
        /\ SwitchUnrecognized(run[r])
        /\ CallFailed(Last(run[r].calls))
        /\ Last(run[r].calls).op = "wait"
        /\ run[r].pc = "done"

\* The first request was answered with neither success nor payment-required
\* (status 0: no response at all).
FirstRequestRejected(rec) == rec.firstStatus.def /\ rec.firstStatus.n \notin {200, 402}

\* C21: when the first request fails with a status other than 402 (401, 500,
\* no response), the activation ends in the failed outcome showing the
\* request's error (the server's error text, else the error's message, else
\* 'Request failed'), having matched nothing, called the wallet for nothing
\* and sent no second request.
C21_OtherStatusIsRequestFailure ==
    \A r \in Runs :
        FirstRequestRejected(run[r]) =>
            /\ run[r].pc = "done"
            /\ run[r].outcome = "failed"
            /\ run[r].delivered = "none"
            /\ run[r].failedAt = "request"
            /\ \E dataError \in ServerErrorTexts :
                  run[r].shown = (IF dataError # EmptyMsg THEN dataError
                                  ELSE IF run[r].thrown.message # EmptyMsg
                                  THEN run[r].thrown.message
                                  ELSE Msg("Request failed"))
            /\ error = run[r].shown
            /\ ~loading
            /\ run[r].option = NoOption
            /\ ~run[r].negotiating
            /\ run[r].calls = <<>>
            /\ Len(run[r].reqs) = 1

C21_Witness ==
    \E r \in Runs :
        /\ run[r].firstStatus = Num(401)
        /\ run[r].shown = Msg("Unauthorized")
        /\ run[r].pc = "done"

\* The kind, in the taxonomy of failures, of an error e caught at `step`.
KindOf(step, e) ==
    IF step = "switch"
    THEN (IF e.code = "ACTION_REJECTED" THEN "ChainSwitchRejected" ELSE "ChainSwitchFailed")
    ELSE IF step \in {"transfer", "confirm"}
    THEN (IF e.code = "ACTION_REJECTED" THEN "UserRejected" ELSE "TransactionFailed")
    ELSE IF step = "retry" THEN "ServerRejectedProof"
    ELSE ""

\* The kind of the failure an activation ended in ("": none of those below).
KindOfRun(rec) ==
    IF rec.outcome # "failed" THEN ""
    ELSE IF rec.failedAt = "match" THEN "UnsupportedNetwork"
    ELSE IF rec.failedAt = "balance" /\ BalanceShort(rec) THEN "InsufficientBalance"
    ELSE IF rec.failedAt = "request" THEN "RequestFailed"
    ELSE IF rec.failedAt = "retry" /\ rec.retryStatus = Num(0) THEN "RequestFailed"
    ELSE KindOf(rec.failedAt, rec.thrown)

\* What is left of a failure for the page's user: the text in error, with the
\* kind of the failure it was left by.
FailuresShown ==
    {[kind |-> KindOf(step, e), text |-> PayErrText(e)] :
        step \in {"switch", "transfer", "confirm"}, e \in WalletErrors}
    \cup {[kind |-> "ServerRejectedProof", text |-> PayErrText(ax.err)] :
            ax \in AxiosErrors(RetryStatuses \ {0})}

\* C22: a failed activation ends in an outcome that tells its kind: what it
\* leaves for the caller is left by no failure of another kind of the
\* taxonomy.
C22_FailureCarriesItsKind ==
    \A r \in Runs :
        KindOfRun(run[r]) # "" =>
            \A f \in FailuresShown :
                f.kind # KindOfRun(run[r]) => f.text # run[r].shown

\* At most one interceptor is on the API client, the flag says whether there
\* is one, and it was installed with a wallet client made for an address.
InstalledAtMostOnce ==
    /\ Len(interceptors) <= 1
    /\ interceptorInstalled <=> interceptors # <<>>
    /\ interceptors # <<>> =>
          /\ interceptors[1].account \in Accounts
          /\ walletClient # NoClient

\* An installed interceptor stays, and the flag stays set.
NeverRemoved ==
    (interceptors # <<>>) =>
        /\ interceptors' # <<>>
        /\ SubSeq(interceptors', 1, Len(interceptors)) = interceptors
        /\ interceptorInstalled'

\* C23: in the interceptor-based view, whatever setupWallet calls have been
\* made (session restore, login, login again), the payment interceptor is on
\* the API client at most once, only after a wallet address was known, and no
\* step (logout included) removes it.
C23_InterceptorInstalledOnce == []InstalledAtMostOnce /\ [][NeverRemoved]_vars

C23_Witness ==
    /\ interceptors # <<>>
    /\ walletClient # interceptors[1]
    /\ user = NoUser
    /\ logouts = 0
    /\ session = "done"

\* C24: every transfer an activation submits is a transfer on the token
\* contract option.asset, to option.payTo, of option.maxAmountRequired units,
\* option being the one the matcher returned for the list the activation was
\* answered with.
C24_TransferIsTheMatchedOption ==
    \A r \in Runs :
        /\ run[r].negotiating =>
              run[r].option = findBestPaymentOption(run[r].accepts).option
        /\ \A i \in DOMAIN run[r].calls :
              run[r].calls[i].op = "transfer" =>
                  /\ run[r].option # NoOption
                  /\ run[r].calls[i].asset = run[r].option.asset
                  /\ run[r].calls[i].to = run[r].option.payTo
                  /\ run[r].calls[i].amount = run[r].option.maxAmountRequired

C24_Witness ==
    \E r \in Runs :
        /\ run[r].pc = "transfer"
        /\ Last(run[r].calls).amount = MaxAmount
        /\ Last(run[r].calls).to = "0xMerchant"

\* The activation failed before its transfer was confirmed.
FailedBeforeConfirmation(rec) ==
    rec.outcome = "failed" /\ ~TransferConfirmed(rec)

\* C25: a request with an X-Payment header is the second request of an
\* activation whose transfer was confirmed before it was sent; an activation
\* that fails before confirmation (insufficient balance, for one) has sent
\* its first request only, and that one without the header.
C25_HeaderOnlyAfterConfirmation ==
    \A r \in Runs :
        /\ \A i \in DOMAIN run[r].reqs :
              run[r].reqs[i].xPayment # NoHeader =>
                  /\ i = 2
                  /\ run[r].confirmed
                  /\ TransferConfirmed(run[r])
        /\ FailedBeforeConfirmation(run[r]) =>
              /\ Len(run[r].reqs) = 1
              /\ run[r].reqs[1].xPayment = NoHeader

C25_Witness ==
    \E r \in Runs :
        /\ FailedBeforeConfirmation(run[r])
        /\ BalanceShort(run[r])
        /\ "wallet_switchEthereumChain" \in CallOps(run[r])

\* C26: the proof an activation sends is built from the hash its own transfer
\* resolved with and from the config matched in it; the hash, the option and
\* the config are set once in an activation and a new activation starts
\* without them.
C26_ProofIsOfOwnTransfer ==
    \A r \in Runs :
        /\ run[r].pc \in {"idle", "get1"} =>
              /\ run[r].txHash = <<>>
              /\ run[r].option = NoOption
              /\ Len(run[r].reqs) <= 1
        /\ run[r].txHash # <<>> =>
              \E i \in DOMAIN run[r].calls :
                  run[r].calls[i].op = "transfer" /\ Resolved(run[r], i)
        /\ Len(run[r].reqs) = 2 =>
              /\ DecodeToken(run[r].reqs[2].xPayment).hash = run[r].txHash
              /\ DecodeToken(run[r].reqs[2].xPayment).chainId = run[r].config.chainIdDec

C26_Witness ==
    \E r \in Runs :
        /\ Len(run[r].reqs) = 2
        /\ run[r].txHash = <<48, 120, 98, 50, 102>>
        /\ run[r].config = NETWORK_MAP["sepolia"]
        /\ run[r].pc = "done"

\* A finished activation either delivered the payload, error being empty, or
\* left a message in error and delivered nothing.
FinishedOneWay(rec) ==
    rec.pc = "done" =>
        \/ /\ rec.outcome = "success"
           /\ rec.delivered \in {"redirect", "alert"}
           /\ error = EmptyMsg
        \/ /\ rec.outcome = "failed"
           /\ rec.delivered = "none"
           /\ error # EmptyMsg
           /\ error = rec.shown

\* C27: provided every request, wallet call and confirmation wait of a
\* payment eventually returns or fails, every activation of handlePayment
\* finishes, and a finished activation has either delivered the payload with
\* error empty or set error to a non-empty message and delivered nothing.
C27_EveryRunFinishesOneWay ==
    /\ \A r \in Runs : InFlight(r) ~> (run[r].pc = "done")
    /\ [](\A r \in Runs : FinishedOneWay(run[r]))

C27_Witness ==
    \E r \in Runs :
        /\ run[r].pc = "done"
        /\ run[r].outcome = "failed"
        /\ run[r].failedAt = "confirm"
        /\ run[r].thrown.message = EmptyMsg
        /\ error = Msg("Payment execution failed")

\* loading goes from true to false in this step.
LoadingReset == loading /\ ~loading'

\* Activation r returns in this step.
Returns(r) == InFlight(r) /\ run'[r].pc = "done"

\* C28: loading is true while an activation of handlePayment is in flight;
\* the step in which an activation returns, by whichever path (success,
\* payment failure, failure of the first request), leaves loading false; and
\* loading is not reset in a step that leaves an activation awaiting a reply.
C28_LoadingFollowsTheRun ==
    /\ [](\A r \in Runs : InFlight(r) => loading)
    /\ [][/\ \A r \in Runs : Returns(r) => LoadingReset
          /\ LoadingReset => \A r \in Runs : run'[r].pc \in {"idle", "done"}]_vars

\* An activation that failed on the first request (not a 402) has returned
\* and loading is false.
C28_Witness ==
    \E r \in Runs : /\ run[r].pc = "done"
                    /\ run[r].failedAt = "request"
                    /\ run[r].firstStatus = Num(500)
                    /\ ~loading

\* The balance was read in the activation and covers the required amount.
BalanceCovers(rec) == rec.balance.def /\ rec.balance.n >= rec.option.maxAmountRequired

\* C29: a balance equal to or above option.maxAmountRequired passes the
\* pre-flight check: the transfer of the option is the call submitted right
\* after the balance read, and the activation has not failed at the check;
\* an activation rejected by the check read a balance strictly below the
\* required amount.
C29_EqualBalancePasses ==
    \A r \in Runs :
        /\ BalanceCovers(run[r]) =>
               /\ run[r].failedAt # "balance"
               /\ \E i \in 1..(Len(run[r].calls) - 1) :
                      /\ run[r].calls[i].op = "balanceOf"
                      /\ run[r].calls[i + 1].op = "transfer"
                      /\ run[r].calls[i + 1].amount = run[r].option.maxAmountRequired
        /\ run[r].failedAt = "balance" /\ run[r].balance.def =>
               /\ run[r].balance.n < run[r].option.maxAmountRequired
               /\ "transfer" \notin CallOps(run[r])

\* The balance read equals the required amount and the transfer is pending.
C29_Witness ==
    \E r \in Runs : /\ run[r].pc = "transfer"
                    /\ run[r].balance = Num(run[r].option.maxAmountRequired)
                    /\ Last(run[r].calls) = TransferOf(run[r].option)

\* The 402 response carried no accepts, or an accepts that is not a list.
AcceptsUnusable(rec) ==
    rec.firstStatus = Num(402) /\ rec.acceptsKind \in {"missing", "notArray"}

\* The 402 response carried an empty list.
AcceptsEmpty(rec) ==
    rec.firstStatus = Num(402) /\ rec.acceptsKind = "array" /\ rec.negotiating
    /\ rec.accepts = <<>>

\* The activation ended without matching, wallet call, transfer or second
\* request.
EndedBeforeWallet(rec) ==
    /\ rec.pc = "done"
    /\ rec.outcome = "failed"
    /\ rec.option = NoOption
    /\ rec.calls = <<>>
    /\ rec.reqs = <<Request(rec.plan, NoHeader)>>
    /\ rec.shown = rec.thrown.message
    /\ error = rec.shown

C31_InterceptorSignsWithCurrentClient ==
    interceptors # <<>> => Last(interceptors) = walletClient

\* user is set while checkSession's request is still pending: it was set by
\* connectAndLogin, from a verify response.
SetByLogin == user # NoUser /\ session = "wait"

\* C32: once connectAndLogin has set user, no step clears it but the settling
\* of a logout request, whatever checkSession's pending request does.
C32_UserStaysSetAfterLogin ==
    [][SetByLogin => (user' # NoUser \/ logouts' < logouts)]_vars

\* The entries of the registry.
RegistryEntries == {NETWORK_MAP[n] : n \in DOMAIN NETWORK_MAP}

\* C33: in every entry of NETWORK_MAP chainIdHex and chainIdDec are the same
\* integer; hence, in an activation matched to an entry whose switch request
\* resolved, the wallet is on the chain chainIdDec names: the no-op test of
\* ensureNetwork would now succeed, and the chainId of the proof is the
\* wallet's chain.
C33_HexAndDecAgree ==
    /\ \A c \in RegistryEntries : c.chainIdDec.def /\ HexValue(c.chainIdHex) = c.chainIdDec.n
    /\ \A r \in Runs :
           SwitchedChain(run[r]) /\ run[r].config \in RegistryEntries =>
               /\ walletChain = run[r].config.chainIdDec.n
               /\ SameChain(walletChain, run[r].config)
               /\ Len(run[r].reqs) = 2 =>
                      DecodeToken(run[r].reqs[2].xPayment).chainId = Num(walletChain)

\* The wallet was on another chain, the switch to sepolia's chainIdHex
\* resolved, and the proof was sent.
C33_Witness ==
    \E r \in Runs :
        /\ SwitchedChain(run[r])
        /\ run[r].config = NETWORK_MAP["sepolia"]
        /\ ChainRead(run[r]) = Num(84532)
        /\ walletChain = 11155111
        /\ Len(run[r].reqs) = 2

\* handlePayment is called in this step with the pay-as-you-go plan
\* selected, and takes slot r.
PayAsYouGoClicked(r) ==
    /\ selectedPlan = "pay-as-you-go"
    /\ run[r].pc \in {"idle", "done"}
    /\ run'[r].pc \in {"get1", "done"}
    /\ run'[r] # run[r]

\* The amount entered is not a number or is below ten dollars.
BelowMinimum == ~payAsYouGoAmount.def \/ payAsYouGoAmount.n < 10000

\* C34: in the plan-selecting view, handlePayment with the pay-as-you-go plan
\* and an amount that is not a number or is below 10 issues no request, sets
\* error to 'Minimum amount is $10' and ends with loading false; with an
\* amount of 10 or more it issues one POST, and no activation for that plan
\* ever has another request.
C34_MinimumAmountIsEnforced ==
    /\ [](\A r \in Runs :
             run[r].plan = "pay-as-you-go" =>
                 /\ Len(run[r].reqs) <= 1
                 /\ \A i \in DOMAIN run[r].reqs : run[r].reqs[i].method = "POST"
                 /\ run[r].failedAt = "amount" => run[r].reqs = <<>>)
    /\ [][\A r \in Runs :
             PayAsYouGoClicked(r) =>
                 IF BelowMinimum
                 THEN /\ run'[r].pc = "done"
                      /\ run'[r].reqs = <<>>
                      /\ error' = Msg("Minimum amount is $10")
                      /\ ~loading'
                 ELSE /\ run'[r].pc = "get1"
                      /\ Len(run'[r].reqs) = 1
                      /\ run'[r].reqs[1].method = "POST"
                      /\ loading']_vars

\* An amount just below the minimum was rejected: no request, the message
\* shown, loading false.
C34_Witness ==
    \E r \in Runs :
        /\ run[r].plan = "pay-as-you-go"
        /\ run[r].failedAt = "amount"
        /\ payAsYouGoAmount = Num(MinimumAmount - 1)
        /\ run[r].reqs = <<>>
        /\ error = Msg("Minimum amount is $10")
        /\ ~loading

\* The place of a position of connectAndLogin in the order address, chain
\* id, nonce request, message signing, verify request (0: not running).
LoginRank(pc) ==
    CASE pc \in {"getSigner", "requestAddresses"} -> 1
      [] pc \in {"getNetwork", "getChainId"} -> 2
      [] pc \in {"nonce", "getNonce"} -> 3
      [] pc \in {"sign", "signMessage"} -> 4
      [] pc \in {"verify", "postVerify"} -> 5
      [] OTHER -> 0

\* connectAndLogin is clicked without a wallet in this step.
ClickedWithoutWallet ==
    /\ LoginBoxRendered
    /\ ~hasEthereum
    /\ login = "idle"
    /\ login' = "idle"
    /\ error' # error

\* connectAndLogin ends in this step as a failure: user as it was, a message
\* in error, loading false.
LoginEndsFailed == user' = user /\ error' # EmptyMsg /\ ~loading'

\* C35: in each of the three views connectAndLogin goes through its steps in
\* the order address, (chain id,) nonce request, message signing, verify
\* request, one at a time; user changes in a step of connectAndLogin only
\* when the verify request resolves; and when a step fails (no wallet
\* included) no later step is taken, user is as it was, error holds a
\* message and loading is false.
C35_LoginStepsInOrder ==
    [][/\ (login = "idle" /\ login' # "idle") =>
              hasEthereum /\ LoginRank(login') = 1 /\ user' = user
       /\ (login # "idle" /\ login' \notin {"idle", login}) =>
              LoginRank(login') = LoginRank(login) + 1 /\ user' = user /\ loading'
       /\ (login # "idle" /\ login' = "idle") =>
              \/ LoginRank(login) = 5 /\ error' = error /\ ~loading'
              \/ LoginEndsFailed
       /\ ClickedWithoutWallet => LoginEndsFailed]_vars

\* In the login-only view a login has failed on an error of the wallet or of
\* a request: no user, the message shown, loading false.
C35_Witness ==
    /\ view = "home"
    /\ session = "done"
    /\ login = "idle"
    /\ user = NoUser
    /\ error = Msg("library message B")
    /\ ~loading

====
